---- MODULE Spec2Model ----
(***************************************************************************)
(* Background-removal pipeline of rekrea                                   *)
(* (rekrea/modules/background_removal/remover.py).                          *)
(*                                                                         *)
(* One invocation is a call of process_video (or, for the batch processor  *)
(* taken alone, of remove_background_from_frames).  Every statement of the *)
(* Python code that touches the file system, the model session or the      *)
(* progress callback is one action; pc[p] is the statement invocation p    *)
(* executes next.  An external tool (ffmpeg, rembg) either returns or      *)
(* raises: both outcomes are disjuncts of the action that calls it.        *)
(*                                                                         *)
(* hist[p] is a history variable: the trace of what invocation p has done. *)
(*                                                                         *)
(* The GUI script (scripts/background_removal_pipeline.py) runs one        *)
(* invocation in a worker thread, _run_pipeline, which posts messages to a *)
(* queue the Tk main loop drains from poll(); ui holds the queue, the      *)
(* state of the poll timer and, as history, the messages poll has taken.   *)
(* The framerate returned by extract_frames is passed unchanged to         *)
(* rebuild_video and decides no control flow; it is not modelled.          *)
(***************************************************************************)
EXTENDS Integers, Sequences, FiniteSets, TLC

VARIABLES
    pc,        \* [Invocations -> statement to execute next]
    entry,     \* [Invocations -> the function the caller invoked]
    video,     \* [Invocations -> number of frames in the video at input_path]
    model,     \* [Invocations -> model_name argument]
    cb,        \* [Invocations -> TRUE iff progress_callback is not None]
    tmp,       \* [Invocations -> name of the TemporaryDirectory, 0 before]
    fs,        \* [TempNames -> directory tree under the system temp dir]
    outside,   \* [Invocations -> what is at output_path and its parent]
    outside0,  \* outside as it was before the call
    files,     \* [Invocations -> frame_files, the sorted list]
    i,         \* [Invocations -> loop index of the for loop, 1-based]
    buf,       \* [Invocations -> input_bytes / output_bytes in hand]
    session,   \* [Invocations -> ordinal of the loaded session, 0 = none]
    exc,       \* [Invocations -> exception in flight or raised]
    hist,      \* [Invocations -> trace of the invocation]
    ui         \* the GUI script: message queue, poll timer, what poll has seen

vars == <<pc, entry, video, model, cb, tmp, fs, outside, outside0, files, i,
          buf, session, exc, hist, ui>>

(***************************************************************************)
(* Bounds                                                                  *)
(***************************************************************************)
\* Largest number of frames a video decodes into.
MaxFrames == 2

\* Number of frames of each video processed in concurrent invocations.
ConcFrames == 1

\* Number of process_video invocations that may run concurrently.
NumInvocations == 2

Invocations == 1..NumInvocations

\* Names tempfile can draw for a directory under the system temp dir.
TempNames == 1..NumInvocations

(***************************************************************************)
(* File names and file contents                                            *)
(***************************************************************************)
\* Minimum field width of "%05d".
FrameWidth == 5

\* Decimal digits of k, most significant first ("%d").
RECURSIVE Digits(_)
Digits(k) == IF k < 10 THEN <<k>> ELSE Append(Digits(k \div 10), k % 10)

\* Zero padding on the left up to FrameWidth digits ("%05d").
RECURSIVE Pad(_)
Pad(s) == IF Len(s) >= FrameWidth THEN s ELSE Pad(<<0>> \o s)

\* A file name.  frame = TRUE stands for "frame_<stem>.png", the stem being
\* a string of digits; frame = FALSE for any name "frame_*.png" does not
\* match.
FrameName(k) == [frame |-> TRUE, stem |-> Pad(Digits(k))]

OtherName == [frame |-> FALSE, stem |-> <<>>]

\* glob("frame_*.png")
GlobMatch(n) == n.frame

\* Order of str on digit strings: the first differing character decides; a
\* proper prefix comes first ("." sorts before every digit).
RECURSIVE LexLess(_, _)
LexLess(a, b) ==
    IF a = <<>> THEN b # <<>>
    ELSE IF b = <<>> THEN FALSE
    ELSE IF Head(a) # Head(b) THEN Head(a) < Head(b)
    ELSE LexLess(Tail(a), Tail(b))

\* sorted(...) of a set of matching names.
RECURSIVE Sorted(_)
Sorted(S) ==
    IF S = {} THEN <<>>
    ELSE LET m == CHOOSE x \in S : \A y \in S \ {x} : LexLess(x.stem, y.stem)
         IN  <<m>> \o Sorted(S \ {m})

\* Bytes of the decoded frame stored under name n.
Raw(n) == [alpha |-> FALSE, src |-> n]

\* A file some earlier run left in a directory.
Stale == [alpha |-> TRUE, src |-> OtherName]

NoBytes == [alpha |-> FALSE, src |-> OtherName]

\* rembg.remove: the same image with an alpha channel.
Remove(bytes) == [alpha |-> TRUE, src |-> bytes.src]

(***************************************************************************)
(* Directories                                                             *)
(***************************************************************************)
EmptyFiles == [n \in {} |-> NoBytes]

NoDir == [exists |-> FALSE, files |-> EmptyFiles]

EmptyDir == [exists |-> TRUE, files |-> EmptyFiles]

NoWorkspace == [exists |-> FALSE, owner |-> 0, frames |-> NoDir, out |-> NoDir]

\* Path.mkdir(parents=True, exist_ok=True)
Mkdir(d) == IF d.exists THEN d ELSE EmptyDir

\* Path.write_bytes
WriteFile(d, n, bytes) == [d EXCEPT !.files = (n :> bytes) @@ @]

\* Path.glob("frame_*.png"): the names in the directory that match.
Glob(d) == {n \in DOMAIN d.files : GlobMatch(n)}

(***************************************************************************)
(* Models                                                                  *)
(***************************************************************************)
KnownModels == {"u2net", "u2netp", "isnet-general-use", "birefnet-general"}

DefaultModel == "u2net"

ModelNames == {DefaultModel, "not-a-real-model"}

(***************************************************************************)
(* Trace events                                                            *)
(***************************************************************************)
Ev(e, s, a, b) == [e |-> e, s |-> s, a |-> a, b |-> b]

Log(p, ev) == [hist EXCEPT ![p] = Append(@, ev)]

Log2(p, ev1, ev2) == [hist EXCEPT ![p] = Append(Append(@, ev1), ev2)]

(***************************************************************************)
(* Initial states                                                          *)
(***************************************************************************)
\* What can be at output_path before the call: the parent directory may be
\* missing; a file of an earlier run may be there; or output_path names the
\* input video itself ("input"), process_video comparing the two paths
\* nowhere.
OutsideInit ==
    {[parent |-> FALSE, file |-> "absent"],
     [parent |-> TRUE, file |-> "absent"],
     [parent |-> TRUE, file |-> "old"],
     [parent |-> TRUE, file |-> "input"]}

\* No GUI: the library is called directly.
NoGui == [pc |-> "none", timer |-> FALSE, queue |-> <<>>, seen |-> <<>>]

Idle(start) ==
    /\ ui = NoGui
    /\ tmp = [p \in Invocations |-> 0]
    /\ fs = [n \in TempNames |-> NoWorkspace]
    /\ outside0 = outside
    /\ files = [p \in Invocations |-> <<>>]
    /\ i = [p \in Invocations |-> 0]
    /\ buf = [p \in Invocations |-> NoBytes]
    /\ session = [p \in Invocations |-> 0]
    /\ exc = [p \in Invocations |-> "none"]
    /\ hist = [p \in Invocations |-> <<>>]
    /\ pc = [p \in Invocations |-> IF p \in start THEN "call" ELSE "off"]
    /\ entry = [p \in Invocations |-> "process_video"]

\* One call of process_video, with any arguments.
Init ==
    /\ video \in [Invocations -> 0..MaxFrames]
    /\ model \in [Invocations -> ModelNames]
    /\ cb \in [Invocations -> BOOLEAN]
    /\ outside \in [Invocations -> OutsideInit]
    /\ \A p \in Invocations \ {1} :
          /\ video[p] = 0
          /\ model[p] = DefaultModel
          /\ cb[p]
          /\ outside[p] = [parent |-> TRUE, file |-> "absent"]
    /\ Idle({1})

(***************************************************************************)
(* process_video: the scoped temporary directory                           *)
(***************************************************************************)
\* Unwind without the scope guard: the tree is removed only by a call at the
\* end of the function body, which an exception skips.
UnwindSkipsCleanup(p) == "raised"

\* Where an exception raised inside a stage goes: inside the with block it
\* passes through TemporaryDirectory.__exit__ first.
Unwind(p) ==
    IF entry[p] = "remove_background_from_frames" THEN "raised" ELSE "cleanup"

\* Where remove_background_from_frames returns to.
RbReturn(p) ==
    IF entry[p] = "remove_background_from_frames" THEN "returned" ELSE "rv_mkdir"

\* Mkdtemp without the exclusive create: a name is drawn and the directory
\* made afresh whether or not it is there.
MkdtempAnyName == TempNames

\* Names mkdtemp may return: it creates the directory with an exclusive
\* mkdir and draws another name when the name is taken.
Mkdtemp == {n \in TempNames : ~fs[n].exists}

\* with tempfile.TemporaryDirectory(prefix="rekrea_rembg_") as tmp:
EnterWorkspace(p) ==
    /\ pc[p] = "call"
    /\ \E n \in Mkdtemp :
          /\ tmp' = [tmp EXCEPT ![p] = n]
          /\ fs' = [fs EXCEPT ![n] = [exists |-> TRUE, owner |-> p,
                                      frames |-> NoDir, out |-> NoDir]]
          /\ hist' = Log(p, Ev("mkdtemp", "", n, 0))
    /\ pc' = [pc EXCEPT ![p] = "ef_mkdir"]
    /\ UNCHANGED <<entry, video, model, cb, outside, outside0, files, i, buf,
                   session, exc, ui>>

\* TemporaryDirectory.__exit__: the tree is removed, then the call returns
\* or the exception in flight goes on to the caller.
Cleanup(p) ==
    /\ pc[p] = "cleanup"
    /\ fs' = [fs EXCEPT ![tmp[p]] = NoWorkspace]
    /\ hist' = Log(p, Ev("rmtree", "", tmp[p], 0))
    /\ pc' = [pc EXCEPT ![p] = IF exc[p] = "none" THEN "returned" ELSE "raised"]
    /\ UNCHANGED <<entry, video, model, cb, tmp, outside, outside0, files, i,
                   buf, session, exc, ui>>

(***************************************************************************)
(* extract_frames                                                          *)
(***************************************************************************)
\* frames_dir.mkdir(parents=True, exist_ok=True)
ExtractMkdir(p) ==
    /\ pc[p] = "ef_mkdir"
    /\ fs' = [fs EXCEPT ![tmp[p]].frames = Mkdir(@)]
    /\ hist' = Log(p, Ev("begin", "extract", 0, 0))
    /\ pc' = [pc EXCEPT ![p] = "ef_probe"]
    /\ UNCHANGED <<entry, video, model, cb, tmp, outside, outside0, files, i,
                   buf, session, exc, ui>>

\* Probe with a fallback: a failed probe is caught, a default framerate is
\* taken and the extraction goes on.
ProbeFallback(p) ==
    /\ pc[p] = "ef_probe"
    /\ \/ hist' = Log(p, Ev("probe", "extract", 0, 0))
       \/ hist' = Log(p, Ev("fail", "extract", 0, 0))
    /\ pc' = [pc EXCEPT ![p] = "ef_run"]
    /\ UNCHANGED <<entry, video, model, cb, tmp, fs, outside, outside0, files,
                   i, buf, session, exc, ui>>

\* framerate = _get_video_framerate(video_path): ffmpeg.probe returns the
\* stream metadata, or the container is unreadable or holds no video stream.
Probe(p) ==
    /\ pc[p] = "ef_probe"
    /\ \/ /\ pc' = [pc EXCEPT ![p] = "ef_run"]
          /\ hist' = Log(p, Ev("probe", "extract", 0, 0))
          /\ exc' = exc
       \/ /\ pc' = [pc EXCEPT ![p] = Unwind(p)]
          /\ hist' = Log(p, Ev("fail", "extract", 0, 0))
          /\ exc' = [exc EXCEPT ![p] = "ProbeError"]
    /\ UNCHANGED <<entry, video, model, cb, tmp, fs, outside, outside0, files,
                   i, buf, session, ui>>

\* Frames ffmpeg has written into frames_dir so far.
Decoded(p) == Cardinality(DOMAIN fs[tmp[p]].frames.files)

\* ffmpeg.input(video).output(frames_dir / "frame_%05d.png").run(): the
\* decoder writes the next frame of the video.
DecodeFrame(p) ==
    /\ pc[p] = "ef_run"
    /\ Decoded(p) < video[p]
    /\ LET n == FrameName(Decoded(p) + 1)
       IN  /\ fs' = [fs EXCEPT ![tmp[p]].frames = WriteFile(@, n, Raw(n))]
           /\ hist' = Log(p, Ev("decode", "extract", Decoded(p) + 1, 0))
    /\ UNCHANGED <<pc, entry, video, model, cb, tmp, outside, outside0, files,
                   i, buf, session, exc, ui>>

\* DecodeEnd with run_async() in place of run(): the call returns while
\* ffmpeg is still decoding, and the caller goes on.
DecodeEndEarly(p) ==
    /\ pc[p] = "ef_run"
    /\ pc' = [pc EXCEPT ![p] = "rb_mkdir"]
    /\ hist' = Log(p, Ev("end", "extract", Decoded(p), 0))
    /\ UNCHANGED <<entry, video, model, cb, tmp, fs, outside, outside0, files,
                   i, buf, session, exc, ui>>

\* ... .run(quiet=True) returns: the video has been decoded to its end.
DecodeEnd(p) ==
    /\ pc[p] = "ef_run"
    /\ Decoded(p) = video[p]
    /\ pc' = [pc EXCEPT ![p] = "rb_mkdir"]
    /\ hist' = Log(p, Ev("end", "extract", Decoded(p), 0))
    /\ UNCHANGED <<entry, video, model, cb, tmp, fs, outside, outside0, files,
                   i, buf, session, exc, ui>>

\* DecodeFail with a retry: the failed extraction is started again.
DecodeFailRetry(p) ==
    /\ pc[p] = "ef_run"
    /\ pc' = [pc EXCEPT ![p] = "ef_mkdir"]
    /\ hist' = Log(p, Ev("fail", "extract", Decoded(p), 0))
    /\ UNCHANGED <<entry, video, model, cb, tmp, fs, outside, outside0, files,
                   i, buf, session, exc, ui>>

\* ... .run(quiet=True) raises ffmpeg.Error: decoding failed partway; the
\* frames written so far stay in frames_dir.
DecodeFail(p) ==
    /\ pc[p] = "ef_run"
    /\ pc' = [pc EXCEPT ![p] = Unwind(p)]
    /\ exc' = [exc EXCEPT ![p] = "ExtractionError"]
    /\ hist' = Log(p, Ev("fail", "extract", Decoded(p), 0))
    /\ UNCHANGED <<entry, video, model, cb, tmp, fs, outside, outside0, files,
                   i, buf, session, ui>>

(***************************************************************************)
(* remove_background_from_frames                                           *)
(***************************************************************************)
\* new_session calls the invocation has made so far.
Loads(p) == Cardinality({k \in 1..Len(hist[p]) : hist[p][k].e = "new_session"})

\* output_dir.mkdir(parents=True, exist_ok=True)
RbMkdir(p) ==
    /\ pc[p] = "rb_mkdir"
    /\ fs' = [fs EXCEPT ![tmp[p]].out = Mkdir(@)]
    /\ hist' = Log(p, Ev("begin", "process", 0, 0))
    /\ pc' = [pc EXCEPT ![p] = "rb_glob"]
    /\ UNCHANGED <<entry, video, model, cb, tmp, outside, outside0, files, i,
                   buf, session, exc, ui>>

\* frame_files = sorted(frames_dir.glob("frame_*.png")); total = len(...)
RbGlob(p) ==
    /\ pc[p] = "rb_glob"
    /\ files' = [files EXCEPT ![p] = Sorted(Glob(fs[tmp[p]].frames))]
    /\ i' = [i EXCEPT ![p] = 0]
    /\ hist' = Log(p, Ev("list", "process", Cardinality(Glob(fs[tmp[p]].frames)), 0))
    /\ pc' = [pc EXCEPT ![p] = "rb_session"]
    /\ UNCHANGED <<entry, video, model, cb, tmp, fs, outside, outside0, buf,
                   session, exc, ui>>

\* The session object p holds: the invocation whose new_session call made
\* it and the ordinal of that call, as the call recorded them.
Handle(p) ==
    LET made == {k \in 1..Len(hist[p]) :
                    hist[p][k].e = "new_session" /\ hist[p][k].a # 0}
        last == CHOOSE k \in made : \A j \in made : j <= k
    IN  IF made = {} THEN <<0, 0>> ELSE <<hist[p][last].b, hist[p][last].a>>

\* RbNewSession behind a module-level cache: the first session loaded is
\* handed to every later caller.
RbNewSessionCached(p) ==
    /\ pc[p] = "rb_session"
    /\ LET loaded == {q \in Invocations : session[q] # 0}
           q == CHOOSE q \in loaded : TRUE
       IN  IF loaded = {}
           THEN /\ session' = [session EXCEPT ![p] = Loads(p) + 1]
                /\ hist' = Log(p, Ev("new_session", "process", Loads(p) + 1, p))
           ELSE /\ session' = [session EXCEPT ![p] = Handle(q)[2]]
                /\ hist' = Log(p, Ev("new_session", "process",
                                     Handle(q)[2], Handle(q)[1]))
    /\ pc' = [pc EXCEPT ![p] = "rb_next"]
    /\ UNCHANGED <<entry, video, model, cb, tmp, fs, outside, outside0, files,
                   i, buf, exc, ui>>

\* session = new_session(model_name): rembg knows the name or raises.
RbNewSession(p) ==
    /\ pc[p] = "rb_session"
    /\ IF model[p] \in KnownModels
       THEN /\ session' = [session EXCEPT ![p] = Loads(p) + 1]
            /\ hist' = Log(p, Ev("new_session", "process", Loads(p) + 1, p))
            /\ pc' = [pc EXCEPT ![p] = "rb_next"]
            /\ exc' = exc
       ELSE /\ session' = session
            /\ hist' = Log2(p, Ev("new_session", "process", 0, 0),
                               Ev("fail", "process", 0, 0))
            /\ pc' = [pc EXCEPT ![p] = Unwind(p)]
            /\ exc' = [exc EXCEPT ![p] = "UnknownModelError"]
    /\ UNCHANGED <<entry, video, model, cb, tmp, fs, outside, outside0, files,
                   i, buf, ui>>

\* for i, frame_path in enumerate(frame_files, start=1): the next frame, or
\* the list is exhausted and the function returns.
RbNext(p) ==
    /\ pc[p] = "rb_next"
    /\ IF i[p] < Len(files[p])
       THEN /\ i' = [i EXCEPT ![p] = @ + 1]
            /\ pc' = [pc EXCEPT ![p] = "rb_read"]
            /\ hist' = hist
       ELSE /\ i' = i
            /\ pc' = [pc EXCEPT ![p] = RbReturn(p)]
            /\ hist' = Log(p, Ev("end", "process", i[p], Len(files[p])))
    /\ UNCHANGED <<entry, video, model, cb, tmp, fs, outside, outside0, files,
                   buf, session, exc, ui>>

\* input_bytes = frame_path.read_bytes()
RbRead(p) ==
    /\ pc[p] = "rb_read"
    /\ files[p][i[p]] \in DOMAIN fs[tmp[p]].frames.files
    /\ buf' = [buf EXCEPT ![p] = fs[tmp[p]].frames.files[files[p][i[p]]]]
    /\ hist' = Log(p, Ev("read", "process", i[p], 0))
    /\ pc' = [pc EXCEPT ![p] = "rb_remove"]
    /\ UNCHANGED <<entry, video, model, cb, tmp, fs, outside, outside0, files,
                   i, session, exc, ui>>

\* RbRemove inside try/except: a frame whose inference fails is skipped and
\* the loop goes on.
RbRemoveSwallow(p) ==
    /\ pc[p] = "rb_remove"
    /\ \/ /\ buf' = [buf EXCEPT ![p] = Remove(@)]
          /\ hist' = Log(p, Ev("infer", "process", i[p], session[p]))
          /\ pc' = [pc EXCEPT ![p] = "rb_write"]
       \/ /\ buf' = buf
          /\ hist' = Log2(p, Ev("infer", "process", i[p], session[p]),
                             Ev("fail", "process", i[p], 0))
          /\ pc' = [pc EXCEPT ![p] = "rb_next"]
    /\ UNCHANGED <<entry, video, model, cb, tmp, fs, outside, outside0, files,
                   i, session, exc, ui>>

\* RbRemove as remove(input_bytes), the session argument left out: rembg
\* then loads a session of its own for the call.
RbRemoveOwnSession(p) ==
    /\ pc[p] = "rb_remove"
    /\ \/ /\ buf' = [buf EXCEPT ![p] = Remove(@)]
          /\ hist' = Log2(p, Ev("new_session", "process", Loads(p) + 1, p),
                             Ev("infer", "process", i[p], Loads(p) + 1))
          /\ pc' = [pc EXCEPT ![p] = "rb_write"]
          /\ exc' = exc
       \/ /\ buf' = buf
          /\ hist' = Log2(p, Ev("new_session", "process", Loads(p) + 1, p),
                             Ev("fail", "process", i[p], 0))
          /\ pc' = [pc EXCEPT ![p] = Unwind(p)]
          /\ exc' = [exc EXCEPT ![p] = "InferenceError"]
    /\ UNCHANGED <<entry, video, model, cb, tmp, fs, outside, outside0, files,
                   i, session, ui>>

\* RbRemove with a failure handler that deletes what the batch has written
\* so far before the error leaves the function.
RbRemoveDiscard(p) ==
    /\ pc[p] = "rb_remove"
    /\ \/ /\ buf' = [buf EXCEPT ![p] = Remove(@)]
          /\ hist' = Log(p, Ev("infer", "process", i[p], session[p]))
          /\ pc' = [pc EXCEPT ![p] = "rb_write"]
          /\ exc' = exc
          /\ fs' = fs
       \/ /\ buf' = buf
          /\ hist' = Log2(p, Ev("infer", "process", i[p], session[p]),
                             Ev("fail", "process", i[p], 0))
          /\ pc' = [pc EXCEPT ![p] = Unwind(p)]
          /\ exc' = [exc EXCEPT ![p] = "InferenceError"]
          /\ fs' = [fs EXCEPT ![tmp[p]].out = EmptyDir]
    /\ UNCHANGED <<entry, video, model, cb, tmp, outside, outside0, files, i,
                   session, ui>>

\* output_bytes = remove(input_bytes, session=session): the inference
\* returns the image with its alpha channel, or fails on this frame.
RbRemove(p) ==
    /\ pc[p] = "rb_remove"
    /\ \/ /\ buf' = [buf EXCEPT ![p] = Remove(@)]
          /\ hist' = Log(p, Ev("infer", "process", i[p], session[p]))
          /\ pc' = [pc EXCEPT ![p] = "rb_write"]
          /\ exc' = exc
       \/ /\ buf' = buf
          /\ hist' = Log2(p, Ev("infer", "process", i[p], session[p]),
                             Ev("fail", "process", i[p], 0))
          /\ pc' = [pc EXCEPT ![p] = Unwind(p)]
          /\ exc' = [exc EXCEPT ![p] = "InferenceError"]
    /\ UNCHANGED <<entry, video, model, cb, tmp, fs, outside, outside0, files,
                   i, session, ui>>

\* RbWrite naming the output after the loop index, "frame_%05d.png" % i,
\* instead of after the input file.
RbWriteByIndex(p) ==
    /\ pc[p] = "rb_write"
    /\ fs' = [fs EXCEPT ![tmp[p]].out = WriteFile(@, FrameName(i[p]), buf[p])]
    /\ hist' = Log(p, Ev("write", "process", i[p], 0))
    /\ pc' = [pc EXCEPT ![p] = "rb_progress"]
    /\ UNCHANGED <<entry, video, model, cb, tmp, outside, outside0, files, i,
                   buf, session, exc, ui>>

\* RbWrite handing the bytes to a background writer: the loop goes on
\* before anything is on disk.
RbWriteDeferred(p) ==
    /\ pc[p] = "rb_write"
    /\ hist' = Log(p, Ev("write", "process", i[p], 0))
    /\ pc' = [pc EXCEPT ![p] = "rb_progress"]
    /\ UNCHANGED <<entry, video, model, cb, tmp, fs, outside, outside0, files,
                   i, buf, session, exc, ui>>

\* (output_dir / frame_path.name).write_bytes(output_bytes)
RbWrite(p) ==
    /\ pc[p] = "rb_write"
    /\ fs' = [fs EXCEPT ![tmp[p]].out = WriteFile(@, files[p][i[p]], buf[p])]
    /\ hist' = Log(p, Ev("write", "process", i[p], 0))
    /\ pc' = [pc EXCEPT ![p] = "rb_progress"]
    /\ UNCHANGED <<entry, video, model, cb, tmp, outside, outside0, files, i,
                   buf, session, exc, ui>>

\* RbProgress with enumerate(...) left at its default start of 0.
RbProgressZeroBased(p) ==
    /\ pc[p] = "rb_progress"
    /\ hist' = IF cb[p]
               THEN Log(p, Ev("progress", "process", i[p] - 1, Len(files[p])))
               ELSE hist
    /\ pc' = [pc EXCEPT ![p] = "rb_next"]
    /\ UNCHANGED <<entry, video, model, cb, tmp, fs, outside, outside0, files,
                   i, buf, session, exc, ui>>

\* A message of the worker: ("progress", current, total), ("done", path) or
\* ("error", text); the path and the text decide nothing and are left out.
Msg(tag, a, b) == [tag |-> tag, a |-> a, b |-> b]

\* PutReady for queue.Queue(maxsize=1): put() blocks while the queue holds
\* a message.
PutBounded == Len(ui.queue) < 1

\* progress_queue = queue.Queue(): no maxsize, so put() never blocks.
PutReady == TRUE

\* progress_queue.put(msg)
Put(msg) == [ui EXCEPT !.queue = Append(@, msg)]

\* The callback of the GUI worker, on_progress, posts the pair to the queue;
\* any other caller's callback leaves the GUI alone.
OnProgress(p, current, total) ==
    IF entry[p] = "_run_pipeline"
    THEN PutReady /\ ui' = Put(Msg("progress", current, total))
    ELSE ui' = ui

\* if progress_callback: progress_callback(i, total)
RbProgress(p) ==
    /\ pc[p] = "rb_progress"
    /\ IF cb[p]
       THEN /\ hist' = Log(p, Ev("progress", "process", i[p], Len(files[p])))
            /\ OnProgress(p, i[p], Len(files[p]))
       ELSE /\ hist' = hist
            /\ ui' = ui
    /\ pc' = [pc EXCEPT ![p] = "rb_next"]
    /\ UNCHANGED <<entry, video, model, cb, tmp, fs, outside, outside0, files,
                   i, buf, session, exc>>

(***************************************************************************)
(* rebuild_video                                                           *)
(***************************************************************************)
\* output_path.parent.mkdir(parents=True, exist_ok=True)
RebuildMkdir(p) ==
    /\ pc[p] = "rv_mkdir"
    /\ outside' = [outside EXCEPT ![p].parent = TRUE]
    /\ hist' = Log(p, Ev("begin", "rebuild", 0, 0))
    /\ pc' = [pc EXCEPT ![p] = "rv_run"]
    /\ UNCHANGED <<entry, video, model, cb, tmp, fs, outside0, files, i, buf,
                   session, exc, ui>>

\* The image sequence "frame_%05d.png" has a first frame to encode.
HasSequence(d) == FrameName(1) \in DOMAIN d.files

\* What a failed ffmpeg run can leave at output_path: overwrite_output lets
\* it open the file for writing before the encoder fails.
FailedOutput(f) == {f, "partial"}

\* ffmpeg.input(frames_dir / "frame_%05d.png", framerate=framerate)
\*       .output(output_path, ...).overwrite_output().run(quiet=True)
RebuildRun(p) ==
    /\ pc[p] = "rv_run"
    /\ \/ /\ HasSequence(fs[tmp[p]].out)
          /\ outside' = [outside EXCEPT ![p].file = "video"]
          /\ hist' = Log(p, Ev("end", "rebuild", 0, 0))
          /\ pc' = [pc EXCEPT ![p] = "cleanup"]
          /\ exc' = exc
       \/ /\ \E f \in FailedOutput(outside[p].file) :
                outside' = [outside EXCEPT ![p].file = f]
          /\ hist' = Log(p, Ev("fail", "rebuild", 0, 0))
          /\ pc' = [pc EXCEPT ![p] = Unwind(p)]
          /\ exc' = [exc EXCEPT ![p] = "EncodingError"]
    /\ UNCHANGED <<entry, video, model, cb, tmp, fs, outside0, files, i, buf,
                   session, ui>>

(***************************************************************************)
(* scripts/background_removal_pipeline.py: the worker thread and poll      *)
(***************************************************************************)
\* WorkerError as a handler followed by an unconditional put of "done"
\* after the try statement.
WorkerErrorThenDone(p) ==
    /\ entry[p] = "_run_pipeline"
    /\ pc[p] = "raised"
    /\ PutReady
    /\ ui' = [ui EXCEPT !.queue = Append(Append(@, Msg("error", 0, 0)),
                                         Msg("done", 0, 0))]
    /\ hist' = Log2(p, Ev("error", "post", 0, 0), Ev("done", "post", 0, 0))
    /\ pc' = [pc EXCEPT ![p] = "posted"]
    /\ UNCHANGED <<entry, video, model, cb, tmp, fs, outside, outside0, files,
                   i, buf, session, exc>>

\* WorkerDone with the put moved into process_video's with block, ahead of
\* the exit of the TemporaryDirectory.
WorkerDoneInside(p) ==
    /\ entry[p] = "_run_pipeline"
    /\ pc[p] = "cleanup"
    /\ exc[p] = "none"
    /\ ui.queue = <<>> \/ ui.queue[Len(ui.queue)].tag # "done"
    /\ PutReady
    /\ ui' = Put(Msg("done", 0, 0))
    /\ hist' = Log(p, Ev("done", "post", 0, 0))
    /\ UNCHANGED <<pc, entry, video, model, cb, tmp, fs, outside, outside0,
                   files, i, buf, session, exc>>

\* process_video has returned: progress_queue.put(("done", str(output_path)))
WorkerDone(p) ==
    /\ entry[p] = "_run_pipeline"
    /\ pc[p] = "returned"
    /\ PutReady
    /\ ui' = Put(Msg("done", 0, 0))
    /\ hist' = Log(p, Ev("done", "post", 0, 0))
    /\ pc' = [pc EXCEPT ![p] = "posted"]
    /\ UNCHANGED <<entry, video, model, cb, tmp, fs, outside, outside0, files,
                   i, buf, session, exc>>

\* except Exception as exc: progress_queue.put(("error", str(exc)))
WorkerError(p) ==
    /\ entry[p] = "_run_pipeline"
    /\ pc[p] = "raised"
    /\ PutReady
    /\ ui' = Put(Msg("error", 0, 0))
    /\ hist' = Log(p, Ev("error", "post", 0, 0))
    /\ pc' = [pc EXCEPT ![p] = "posted"]
    /\ UNCHANGED <<entry, video, model, cb, tmp, fs, outside, outside0, files,
                   i, buf, session, exc>>

\* The 100 ms timer set by root.after(100, poll) fires: poll() is entered.
PollFire ==
    /\ ui.pc = "idle"
    /\ ui.timer
    /\ ui' = [ui EXCEPT !.pc = "polling", !.timer = FALSE]
    /\ UNCHANGED <<pc, entry, video, model, cb, tmp, fs, outside, outside0,
                   files, i, buf, session, exc, hist>>

\* msg = progress_queue.get_nowait() returns the oldest message: a progress
\* message updates the bar and the loop goes on; done or error shows the
\* dialog, destroys the windows and returns without setting the timer.
PollGet ==
    /\ ui.pc = "polling"
    /\ ui.queue # <<>>
    /\ LET msg == Head(ui.queue)
       IN  ui' = [ui EXCEPT !.queue = Tail(@),
                            !.seen = Append(@, msg),
                            !.pc = IF msg.tag = "progress"
                                   THEN "polling" ELSE "closed"]
    /\ UNCHANGED <<pc, entry, video, model, cb, tmp, fs, outside, outside0,
                   files, i, buf, session, exc, hist>>

\* PollEmpty without the root.after call at the end of poll().
PollEmptyOnce ==
    /\ ui.pc = "polling"
    /\ ui.queue = <<>>
    /\ ui' = [ui EXCEPT !.pc = "idle"]
    /\ UNCHANGED <<pc, entry, video, model, cb, tmp, fs, outside, outside0,
                   files, i, buf, session, exc, hist>>

\* get_nowait() raises queue.Empty: except queue.Empty: pass, then
\* root.after(100, poll) sets the timer again.
PollEmpty ==
    /\ ui.pc = "polling"
    /\ ui.queue = <<>>
    /\ ui' = [ui EXCEPT !.pc = "idle", !.timer = TRUE]
    /\ UNCHANGED <<pc, entry, video, model, cb, tmp, fs, outside, outside0,
                   files, i, buf, session, exc, hist>>

(***************************************************************************)
(* Specifications                                                          *)
(***************************************************************************)
Extract(p) ==
    \/ ExtractMkdir(p)
    \/ Probe(p)
    \/ DecodeFrame(p)
    \/ DecodeEnd(p)
    \/ DecodeFail(p)

Batch(p) ==
    \/ RbMkdir(p)
    \/ RbGlob(p)
    \/ RbNewSession(p)
    \/ RbNext(p)
    \/ RbRead(p)
    \/ RbRemove(p)
    \/ RbWrite(p)
    \/ RbProgress(p)

Rebuild(p) ==
    \/ RebuildMkdir(p)
    \/ RebuildRun(p)

Next ==
    \E p \in Invocations :
        \/ EnterWorkspace(p)
        \/ Extract(p)
        \/ Batch(p)
        \/ Rebuild(p)
        \/ Cleanup(p)

\* One call of process_video.
Spec == Init /\ [][Next]_vars

\* Directories a caller can hand to remove_background_from_frames: any mix
\* of frames and other files in frames_dir; output_dir missing, empty or
\* holding files of an earlier run.
InputNames == {FrameName(k) : k \in 1..MaxFrames} \cup {OtherName}

InputDirs == {[exists |-> TRUE, files |-> [n \in S |-> Raw(n)]] : S \in SUBSET InputNames}

OutputDirs ==
    {NoDir} \cup {[exists |-> TRUE, files |-> [n \in S |-> Stale]] :
                     S \in SUBSET {FrameName(1), OtherName}}

\* One direct call of remove_background_from_frames, with any arguments.
InitBatch ==
    /\ video = [p \in Invocations |-> 0]
    /\ model \in [Invocations -> ModelNames]
    /\ cb \in [Invocations -> BOOLEAN]
    /\ \A p \in Invocations \ {1} : model[p] = DefaultModel /\ cb[p]
    /\ outside = [p \in Invocations |-> [parent |-> TRUE, file |-> "absent"]]
    /\ outside0 = outside
    /\ ui = NoGui
    /\ tmp = [p \in Invocations |-> IF p = 1 THEN 1 ELSE 0]
    /\ \E fr \in InputDirs, ou \in OutputDirs :
          fs = [n \in TempNames |->
                   IF n = 1
                   THEN [exists |-> TRUE, owner |-> 0, frames |-> fr, out |-> ou]
                   ELSE NoWorkspace]
    /\ files = [p \in Invocations |-> <<>>]
    /\ i = [p \in Invocations |-> 0]
    /\ buf = [p \in Invocations |-> NoBytes]
    /\ session = [p \in Invocations |-> 0]
    /\ exc = [p \in Invocations |-> "none"]
    /\ hist = [p \in Invocations |-> <<>>]
    /\ pc = [p \in Invocations |-> IF p = 1 THEN "rb_mkdir" ELSE "off"]
    /\ entry = [p \in Invocations |->
                   IF p = 1 THEN "remove_background_from_frames" ELSE "process_video"]

NextBatch == \E p \in Invocations : Batch(p)

SpecBatch == InitBatch /\ [][NextBatch]_vars

\* Concurrent calls of process_video, each made the way the GUI worker makes
\* it: default model, a progress callback, the output directory in place.
InitConc ==
    /\ video = [p \in Invocations |-> ConcFrames]
    /\ model = [p \in Invocations |-> DefaultModel]
    /\ cb = [p \in Invocations |-> TRUE]
    /\ outside = [p \in Invocations |-> [parent |-> TRUE, file |-> "absent"]]
    /\ Idle(Invocations)

SpecConc == InitConc /\ [][Next]_vars

\* Two concurrent calls of process_video on videos of MaxFrames frames.
InitPair ==
    /\ video = [p \in Invocations |-> IF p \in {1, 2} THEN MaxFrames ELSE 0]
    /\ model = [p \in Invocations |-> DefaultModel]
    /\ cb = [p \in Invocations |-> TRUE]
    /\ outside = [p \in Invocations |-> [parent |-> TRUE, file |-> "absent"]]
    /\ Idle({1, 2})

SpecPair == InitPair /\ [][Next]_vars

\* main() after thread.start() and the first root.after(100, poll): the
\* worker is about to call process_video on the chosen video with the
\* default model and on_progress; OUTPUT_DIR exists and may hold the output
\* of an earlier run; the queue is empty and the timer is set.
InitGui ==
    /\ video \in [Invocations -> 0..MaxFrames]
    /\ \A p \in Invocations \ {1} : video[p] = 0
    /\ model = [p \in Invocations |-> DefaultModel]
    /\ cb = [p \in Invocations |-> TRUE]
    /\ outside \in [Invocations -> {[parent |-> TRUE, file |-> "absent"],
                                    [parent |-> TRUE, file |-> "old"]}]
    /\ \A p \in Invocations \ {1} : outside[p].file = "absent"
    /\ outside0 = outside
    /\ ui = [pc |-> "idle", timer |-> TRUE, queue |-> <<>>, seen |-> <<>>]
    /\ tmp = [p \in Invocations |-> 0]
    /\ fs = [n \in TempNames |-> NoWorkspace]
    /\ files = [p \in Invocations |-> <<>>]
    /\ i = [p \in Invocations |-> 0]
    /\ buf = [p \in Invocations |-> NoBytes]
    /\ session = [p \in Invocations |-> 0]
    /\ exc = [p \in Invocations |-> "none"]
    /\ hist = [p \in Invocations |-> <<>>]
    /\ pc = [p \in Invocations |-> IF p = 1 THEN "call" ELSE "off"]
    /\ entry = [p \in Invocations |->
                   IF p = 1 THEN "_run_pipeline" ELSE "process_video"]

\* The worker thread: process_video, then the terminal message.
Worker ==
    \E p \in Invocations :
        \/ EnterWorkspace(p)
        \/ Extract(p)
        \/ Batch(p)
        \/ Rebuild(p)
        \/ Cleanup(p)
        \/ WorkerDone(p)
        \/ WorkerError(p)

\* The Tk main loop running poll().
Poll ==
    \/ PollFire
    \/ PollGet
    \/ PollEmpty

NextGui == Worker \/ Poll

SpecGui == InitGui /\ [][NextGui]_vars

\* The worker thread is scheduled and every external tool it calls returns
\* or raises; nothing is assumed of the main loop.
SpecGuiWorker == InitGui /\ [][NextGui]_vars /\ WF_vars(Worker)

\* The worker thread and the main loop with its timer are both scheduled.
SpecGuiFair == InitGui /\ [][NextGui]_vars /\ WF_vars(Worker) /\ WF_vars(Poll)

\* Frames of a video long enough for the frame number to outgrow the pad
\* width: the first two, the last one of FrameWidth digits and the one after
\* it.  "%05d" pads to a minimum width and never truncates.
LongIndices == {1, 2, 10 ^ FrameWidth - 1, 10 ^ FrameWidth}

LongDirs ==
    {[exists |-> TRUE, files |-> [n \in {FrameName(k) : k \in S} |-> Raw(n)]] :
        S \in SUBSET LongIndices}

\* remove_background_from_frames on frames extract_frames has left of such
\* a video, into a fresh output directory.
InitLong ==
    /\ video = [p \in Invocations |-> 0]
    /\ model = [p \in Invocations |-> DefaultModel]
    /\ cb = [p \in Invocations |-> TRUE]
    /\ outside = [p \in Invocations |-> [parent |-> TRUE, file |-> "absent"]]
    /\ outside0 = outside
    /\ ui = NoGui
    /\ tmp = [p \in Invocations |-> IF p = 1 THEN 1 ELSE 0]
    /\ \E fr \in LongDirs :
          fs = [n \in TempNames |->
                   IF n = 1
                   THEN [exists |-> TRUE, owner |-> 0, frames |-> fr, out |-> NoDir]
                   ELSE NoWorkspace]
    /\ files = [p \in Invocations |-> <<>>]
    /\ i = [p \in Invocations |-> 0]
    /\ buf = [p \in Invocations |-> NoBytes]
    /\ session = [p \in Invocations |-> 0]
    /\ exc = [p \in Invocations |-> "none"]
    /\ hist = [p \in Invocations |-> <<>>]
    /\ pc = [p \in Invocations |-> IF p = 1 THEN "rb_mkdir" ELSE "off"]
    /\ entry = [p \in Invocations |->
                   IF p = 1 THEN "remove_background_from_frames" ELSE "process_video"]

SpecLong == InitLong /\ [][NextBatch]_vars

(***************************************************************************)
(* Properties                                                              *)
(***************************************************************************)
Returned(p) == pc[p] = "returned"

Raised(p) == pc[p] = "raised"

\* Positions of the events of kind e in the trace of p.
At(p, e) == {k \in 1..Len(hist[p]) : hist[p][k].e = e}

\* Positions of the events of stage s in the trace of p.
InStage(p, s) == {k \in 1..Len(hist[p]) : hist[p][k].s = s}

\* Positions at which stage s was entered.
Begins(p, s) == At(p, "begin") \cap InStage(p, s)

\* Positions at which stage s returned normally.
Ends(p, s) == At(p, "end") \cap InStage(p, s)

\* C1: once process_video has returned or raised, the temporary workspace
\* with frames/ and output_frames/ is gone, whichever stage failed (or
\* none): the caller sees the result only after the tree has been removed.
C1_WorkspaceRemoved ==
    \A p \in Invocations :
        (entry[p] = "process_video" /\ (Returned(p) \/ Raised(p)))
            => /\ tmp[p] # 0
               /\ fs[tmp[p]] = NoWorkspace
               /\ hist[p][Len(hist[p])].e = "rmtree"

\* A run whose inference failed after frames were extracted has raised, and
\* its workspace is gone.
C1_Witness ==
    \E p \in Invocations :
        /\ Raised(p)
        /\ exc[p] = "InferenceError"
        /\ At(p, "decode") # {}
        /\ fs[tmp[p]] = NoWorkspace

\* C2: the stages of process_video run in the order extract, process,
\* rebuild without overlap: everything the batch processor does comes after
\* the extractor has returned with every frame of the video decoded, and
\* nothing of the extractor comes after it;
\* the reassembler starts only after the batch processor has returned,
\* having processed every extracted frame.
C2_StagesInOrder ==
    \A p \in Invocations :
        /\ \A k \in InStage(p, "process") :
              /\ \E j \in Ends(p, "extract") :
                    j < k /\ hist[p][j].a = video[p]
              /\ \A j \in InStage(p, "extract") : j < k
        /\ \A k \in InStage(p, "rebuild") :
              /\ \E j \in Ends(p, "process") :
                    j < k /\ hist[p][j].a = hist[p][j].b
              /\ \A j \in InStage(p, "process") : j < k
        /\ pc[p] \in {"rv_mkdir", "rv_run"}
              => /\ Cardinality(At(p, "write")) = Cardinality(At(p, "decode"))
                 /\ DOMAIN fs[tmp[p]].out.files = DOMAIN fs[tmp[p]].frames.files

\* The reassembler is about to encode a video of at least two frames.
C2_Witness ==
    \E p \in Invocations :
        /\ pc[p] = "rv_run"
        /\ Len(files[p]) >= 2
        /\ Cardinality(At(p, "read")) >= 2

\* The progress calls made so far, in order.
ProgressCalls(p) == SelectSeq(hist[p], LAMBDA ev : ev.e = "progress")

\* C3: with a callback, the k-th progress call of remove_background_from_
\* frames carries current = k and total = N, N being the number of frame
\* files; when every inference has succeeded and the call has returned there
\* have been exactly N calls (none for N = 0).
C3_ProgressCalls ==
    \A p \in Invocations :
        cb[p] =>
            LET c == ProgressCalls(p)
                N == Cardinality({n \in DOMAIN fs[tmp[p]].frames.files : n.frame})
            IN  /\ \A k \in 1..Len(c) : c[k].a = k /\ c[k].b = N
                /\ Returned(p) => Len(c) = N

\* A batch of at least two frames has been processed with a callback.
C3_Witness ==
    \E p \in Invocations :
        /\ Returned(p)
        /\ cb[p]
        /\ Len(files[p]) >= 2
        /\ Len(ProgressCalls(p)) >= 2

\* C4: when the model name is not recognized, UnknownModelError is raised
\* before any frame work: nothing has been probed, decoded, listed, read or
\* written by then.
C4_FailFast ==
    \A p \in Invocations :
        exc[p] = "UnknownModelError"
            => \A k \in 1..Len(hist[p]) :
                  hist[p][k].e \in {"mkdtemp", "new_session", "fail", "rmtree"}

\* C5: when inference fails on a frame during process_video, the call ends
\* with InferenceError, rebuild_video is never invoked, and nothing at
\* output_path or its parent has been created or modified.
C5_InferenceFailure ==
    \A p \in Invocations :
        (\E k \in At(p, "fail") : hist[p][k].s = "process" /\ hist[p][k].a >= 1)
            => /\ exc[p] = "InferenceError"
               /\ pc[p] \in {"cleanup", "raised"}
               /\ InStage(p, "rebuild") = {}
               /\ outside[p] = outside0[p]

\* Inference failed on the second frame, after the first was written, and
\* the call has raised.
C5_Witness ==
    \E p \in Invocations :
        /\ entry[p] = "process_video"
        /\ Raised(p)
        /\ exc[p] = "InferenceError"
        /\ i[p] = 2
        /\ At(p, "write") # {}

Stages == {"extract", "process", "rebuild"}

\* C6: every stage of process_video is started at most once; a failure ends
\* the invocation: after it nothing follows but the removal of the workspace,
\* and the exception stays the one of the failing stage.
C6_NoRetry ==
    \A p \in Invocations :
        /\ \A s \in Stages : Cardinality(Begins(p, s)) <= 1
        /\ \A k \in At(p, "fail") :
              /\ exc[p] # "none"
              /\ pc[p] \in {"cleanup", "raised"}
              /\ \/ k = Len(hist[p])
                 \/ k + 1 = Len(hist[p]) /\ hist[p][k + 1].e = "rmtree"

\* Extraction failed partway and the call has raised.
C6_Witness ==
    \E p \in Invocations :
        /\ Raised(p)
        /\ exc[p] = "ExtractionError"
        /\ At(p, "decode") # {}
        /\ Begins(p, "process") = {}

\* C7: an invocation of remove_background_from_frames calls new_session
\* exactly once whatever the number of frames, also when the batch fails
\* midway, and every inference uses the session of that one call.
C7_OneSession ==
    \A p \in Invocations :
        /\ Cardinality(At(p, "new_session")) <= 1
        /\ (Returned(p) \/ Raised(p)) => Cardinality(At(p, "new_session")) = 1
        /\ \A k \in At(p, "infer") : hist[p][k].b = 1 /\ session[p] = 1

\* A batch of at least two frames went through inference on one session.
C7_Witness ==
    \E p \in Invocations :
        /\ Cardinality(At(p, "infer")) >= 2
        /\ Cardinality(At(p, "new_session")) = 1
        /\ (Returned(p) \/ Raised(p))

\* C8 as stated: after a successful remove_background_from_frames the names
\* in the output directory are exactly the names in the input directory,
\* each output being the inference result of the input of the same name.
C8_SameFilenames ==
    \A p \in Invocations :
        (entry[p] = "remove_background_from_frames" /\ Returned(p))
            => LET fr == fs[tmp[p]].frames.files
                   ou == fs[tmp[p]].out.files
               IN  /\ DOMAIN ou = DOMAIN fr
                   /\ \A n \in DOMAIN ou : ou[n] = Remove(fr[n])

\* C8 amended: after a successful remove_background_from_frames the files
\* the call has written are exactly one per input file whose name matches
\* frame_*.png, under the same name and holding its inference result; input
\* files of other names have no counterpart, and what the output directory
\* held under other names is still there.
C8_FramesProcessed ==
    \A p \in Invocations :
        (entry[p] = "remove_background_from_frames" /\ Returned(p))
            => LET fr == fs[tmp[p]].frames.files
                   ou == fs[tmp[p]].out.files
                   F == {n \in DOMAIN fr : n.frame}
                   W == {files[p][hist[p][k].a] : k \in At(p, "write")}
               IN  /\ W = F
                   /\ F \subseteq DOMAIN ou
                   /\ \A n \in F : ou[n] = Remove(fr[n])
                   /\ \A n \in DOMAIN ou \ F : ou[n] = Stale

\* A successful batch over two frames and a file of another name, into an
\* output directory that held a file of an earlier run.
C8_Witness ==
    \E p \in Invocations :
        /\ entry[p] = "remove_background_from_frames"
        /\ Returned(p)
        /\ OtherName \in DOMAIN fs[tmp[p]].frames.files
        /\ OtherName \in DOMAIN fs[tmp[p]].out.files
        /\ Cardinality(At(p, "write")) >= 2

\* C9: after process_video has failed, at whatever stage, nothing at
\* output_path or its parent has been created or overwritten.
C9_NoPartialOutput ==
    \A p \in Invocations :
        (entry[p] = "process_video" /\ Raised(p)) => outside[p] = outside0[p]

\* An invocation that holds a workspace.
Active(p) == pc[p] \notin {"off", "call", "returned", "raised"}

\* C10: concurrent invocations of process_video own distinct workspaces: the
\* directory an invocation works in exists, was created by it and is no
\* other active invocation's, and holds exactly the frames the invocation
\* itself has decoded and written, whatever the others create or delete.
C10_PrivateWorkspace ==
    \A p \in Invocations :
        Active(p) =>
            /\ fs[tmp[p]].exists
            /\ fs[tmp[p]].owner = p
            /\ \A q \in Invocations \ {p} : Active(q) => tmp[q] # tmp[p]
            /\ DOMAIN fs[tmp[p]].frames.files
                  = {FrameName(hist[p][k].a) : k \in At(p, "decode")}
            /\ DOMAIN fs[tmp[p]].out.files
                  = {files[p][hist[p][k].a] : k \in At(p, "write")}

\* One invocation has removed its workspace, frames included, while another
\* has just read a frame of its own.
C10_Witness ==
    \E p, q \in Invocations :
        /\ p # q
        /\ At(q, "rmtree") # {}
        /\ At(q, "decode") # {}
        /\ pc[p] = "rb_remove"
        /\ i[p] >= 1
        /\ buf[p] = Raw(FrameName(i[p]))

\* The statement p executes next is the inference: from here until remove()
\* returns or raises, the session p holds is in use.
Inferring(p) == pc[p] = "rb_remove"

\* C11: no two inferences are in flight on one session.  Within a call the
\* inference on a frame starts only after every earlier frame has been
\* inferred and its output written; under concurrent process_video calls
\* every inference runs on a session the invocation itself has created, and
\* two invocations that are inferring hold different sessions.
C11_OneInferencePerSession ==
    \A p \in Invocations :
        /\ \A k \in At(p, "infer") :
              /\ hist[p][k].b = Handle(p)[2]
              /\ Handle(p)[1] = p
              /\ {hist[p][j].a : j \in {m \in At(p, "write") : m < k}}
                    = 1..(hist[p][k].a - 1)
              /\ {hist[p][j].a : j \in {m \in At(p, "infer") : m < k}}
                    = 1..(hist[p][k].a - 1)
        /\ Inferring(p) => Handle(p) = <<p, session[p]>>
        /\ \A q \in Invocations \ {p} :
              (Inferring(p) /\ Inferring(q)) => Handle(p) # Handle(q)

\* Two invocations are at the inference of their second frame at once.
C11_Witness ==
    \E p, q \in Invocations :
        /\ p # q
        /\ Inferring(p) /\ Inferring(q)
        /\ i[p] = 2 /\ i[q] = 2
        /\ Cardinality(At(p, "infer")) = 1

\* The frame numbers of the events of kind e among the first k events of p.
FramesOf(p, e, k) == {hist[p][j].a : j \in {m \in At(p, e) : m <= k}}

\* The destination directory holds the inference results of the first n
\* frames of the list under their own names, and nothing the call has
\* written for a later frame.
WrittenUpTo(p, n) ==
    LET ou == fs[tmp[p]].out.files
    IN  /\ \A j \in 1..n :
              /\ files[p][j] \in DOMAIN ou
              /\ ou[files[p][j]] = Remove(Raw(files[p][j]))
        /\ \A j \in (n + 1)..Len(files[p]) :
              files[p][j] \in DOMAIN ou => ou[files[p][j]] = Stale

\* C12: whenever the progress callback is invoked with (i, N), the three
\* steps before it were read, infer and write of frame i, frames 1..i and no
\* others have been read, inferred and written, and the destination
\* directory holds the outputs of exactly the first i frames under their
\* original names.
C12_ProgressAfterWrite ==
    \A p \in Invocations :
        /\ \A k \in At(p, "progress") :
              LET c == hist[p][k].a
              IN  /\ hist[p][k].b = Len(files[p])
                  /\ k > 3
                  /\ hist[p][k - 3] = Ev("read", "process", c, 0)
                  /\ hist[p][k - 2].e = "infer" /\ hist[p][k - 2].a = c
                  /\ hist[p][k - 1] = Ev("write", "process", c, 0)
                  /\ FramesOf(p, "read", k) = 1..c
                  /\ FramesOf(p, "infer", k) = 1..c
                  /\ FramesOf(p, "write", k) = 1..c
        /\ (pc[p] = "rb_progress" /\ cb[p]) => WrittenUpTo(p, i[p])
        /\ (hist[p] # <<>> /\ hist[p][Len(hist[p])].e = "progress")
              => WrittenUpTo(p, hist[p][Len(hist[p])].a)

\* The callback has just been invoked with (1, 2): the first output is on
\* disk, the second is not.
C12_Witness ==
    \E p \in Invocations :
        /\ entry[p] = "remove_background_from_frames"
        /\ hist[p] # <<>>
        /\ hist[p][Len(hist[p])] = Ev("progress", "process", 1, 2)
        /\ files[p][2] \notin DOMAIN fs[tmp[p]].out.files

\* C13: when inference fails on frame k in remove_background_from_frames the
\* call ends at once with InferenceError: the failure is the last step, the
\* outputs of frames 1..k-1 are in the destination directory, nothing has
\* been written for frame k or a later one, frames 1..k and no others have
\* been read and inferred, and the callback has been invoked k-1 times.
C13_BatchStops ==
    \A p \in Invocations :
        \A k \in At(p, "fail") :
            (entry[p] = "remove_background_from_frames" /\ hist[p][k].a >= 1)
                => LET f == hist[p][k].a
                   IN  /\ exc[p] = "InferenceError"
                       /\ Raised(p)
                       /\ k = Len(hist[p])
                       /\ FramesOf(p, "read", k) = 1..f
                       /\ FramesOf(p, "infer", k) = 1..f
                       /\ FramesOf(p, "write", k) = 1..(f - 1)
                       /\ WrittenUpTo(p, f - 1)
                       /\ Len(ProgressCalls(p)) = IF cb[p] THEN f - 1 ELSE 0

\* Inference has failed on the second of two frames of a direct call with a
\* callback.
C13_Witness ==
    \E p \in Invocations :
        /\ entry[p] = "remove_background_from_frames"
        /\ Raised(p)
        /\ cb[p]
        /\ Len(files[p]) = 2
        /\ hist[p][Len(hist[p])] = Ev("fail", "process", 2, 0)
        /\ Len(ProgressCalls(p)) = 1

\* The frame number a stem of digits stands for.
RECURSIVE Value(_)
Value(s) == IF s = <<>> THEN 0
            ELSE 10 * Value(SubSeq(s, 1, Len(s) - 1)) + s[Len(s)]

\* C14 as stated: frames are processed in temporal order whatever the frame
\* count: of two frames read, the one read first has the smaller frame
\* number, and the k-th progress call belongs to the k-th frame in temporal
\* order.
C14_TemporalOrder ==
    \A p \in Invocations :
        \A j, k \in At(p, "read") :
            j < k => Value(files[p][hist[p][j].a].stem)
                        < Value(files[p][hist[p][k].a].stem)

\* C15: the input video is read-only for every pair (input_path,
\* output_path): when output_path names the input video, the file there is
\* still the input video at every point of the call.
C15_InputReadOnly ==
    \A p \in Invocations :
        outside0[p].file = "input" => outside[p].file = "input"

\* The failures of the prober in the history of p: a failure inside
\* extract_frames that no successful probe precedes.
ProbeFailures(p) ==
    {k \in At(p, "fail") :
        /\ hist[p][k].s = "extract"
        /\ \A j \in At(p, "probe") : j > k}

\* C17: when the prober fails (no video stream, unreadable container) the
\* error is ProbeError and extract_frames passes it on to its caller: the
\* failure is the last step of the stage, no frame has been decoded into
\* the destination directory and no later stage is entered.
C17_ProbeFailure ==
    \A p \in Invocations :
        \A k \in ProbeFailures(p) :
            /\ exc[p] = "ProbeError"
            /\ pc[p] \in {"cleanup", "raised"}
            /\ At(p, "decode") = {}
            /\ At(p, "probe") = {}
            /\ Ends(p, "extract") = {}
            /\ InStage(p, "process") \cup InStage(p, "rebuild") = {}
            /\ pc[p] = "cleanup" => /\ fs[tmp[p]].frames.exists
                                    /\ DOMAIN fs[tmp[p]].frames.files = {}
            /\ outside[p] = outside0[p]

\* The probe of a video has failed and the error is on its way out of
\* process_video, the frames directory created and empty.
C17_Witness ==
    \E p \in Invocations :
        /\ ProbeFailures(p) # {}
        /\ pc[p] = "cleanup"
        /\ video[p] > 0
        /\ fs[tmp[p]].frames = EmptyDir

\* The invocation that is the worker thread of the GUI script.
IsWorker(p) == entry[p] = "_run_pipeline"

Terminal(m) == m.tag \in {"done", "error"}

\* Every message put on the queue so far, oldest first: what poll has taken
\* off followed by what is waiting.
Posted == ui.seen \o ui.queue

\* Positions of the terminal messages in a sequence of messages.
Terminals(q) == {k \in 1..Len(q) : Terminal(q[k])}

\* The messages the worker has posted according to its own trace.
PostedBy(p) ==
    LET evs == SelectSeq(hist[p],
                         LAMBDA ev : ev.e \in {"progress", "done", "error"})
    IN  [k \in 1..Len(evs) |-> Msg(evs[k].e, evs[k].a, evs[k].b)]

\* C16: the worker never waits on the observer.  With the worker thread
\* scheduled and nothing assumed of the poll loop, the worker reaches the end
\* of _run_pipeline with its terminal message posted.
C16_WorkerNeverWaits ==
    <>(\A p \in Invocations :
          IsWorker(p) => pc[p] = "posted" /\ Terminals(Posted) # {})

\* The worker has posted two progress messages and its terminal message
\* while poll has not run once.
C16_Witness ==
    /\ \E p \in Invocations : IsWorker(p) /\ pc[p] = "posted"
    /\ ui.seen = <<>>
    /\ ui.pc = "idle"
    /\ Len(ui.queue) = 3
    /\ ui.queue[1] = Msg("progress", 1, 2)

\* C18: the messages a run of _run_pipeline posts are its progress calls in
\* order followed by exactly one terminal message: none while process_video
\* runs or has just ended, one once the worker is through, nothing after it;
\* done if and only if process_video returned, error if and only if it
\* raised.
C18_OneTerminal ==
    \A p \in Invocations :
        IsWorker(p) =>
            LET T == Terminals(Posted)
                c == ProgressCalls(p)
            IN  /\ Cardinality(T) <= 1
                /\ \A k \in T : k = Len(Posted)
                /\ T # {} <=> pc[p] = "posted"
                /\ \A k \in T : Posted[k].tag = "done" <=> exc[p] = "none"
                /\ \A k \in T :
                      Posted[k].tag = "done" <=> Ends(p, "rebuild") # {}
                /\ Len(Posted) = Len(c) + Cardinality(T)
                /\ \A k \in 1..Len(c) :
                      Posted[k] = Msg("progress", c[k].a, c[k].b)

\* A run has posted a progress message and then error: inference failed on
\* the second frame.
C18_Witness ==
    \E p \in Invocations :
        /\ IsWorker(p)
        /\ pc[p] = "posted"
        /\ exc[p] = "InferenceError"
        /\ Posted = <<Msg("progress", 1, 2), Msg("error", 0, 0)>>

\* C19: a terminal message is on the queue, and so can be dequeued by poll,
\* only after the workspace of the run has been deleted; for done the output
\* video is in place by then.
C19_TerminalAfterCleanup ==
    \A p \in Invocations :
        (IsWorker(p) /\ Terminals(Posted) # {})
            => /\ tmp[p] # 0
               /\ fs[tmp[p]] = NoWorkspace
               /\ At(p, "rmtree") # {}
               /\ \A k \in Terminals(Posted) :
                     Posted[k].tag = "done" => outside[p].file = "video"

\* poll has dequeued done over an output file of an earlier run.
C19_Witness ==
    \E p \in Invocations :
        /\ IsWorker(p)
        /\ ui.pc = "closed"
        /\ ui.seen # <<>>
        /\ ui.seen[Len(ui.seen)].tag = "done"
        /\ outside0[p].file = "old"

\* What poll has taken off the queue is consistent with the order of
\* posting: a prefix of what the worker posted, frame numbers increasing,
\* at most one terminal message, which is the last one taken and after
\* which the loop is closed with no timer set.
PollInOrder ==
    \A p \in Invocations :
        IsWorker(p) =>
            /\ Len(ui.seen) <= Len(PostedBy(p))
            /\ ui.seen = SubSeq(PostedBy(p), 1, Len(ui.seen))
            /\ \A j, k \in 1..Len(ui.seen) :
                  (j < k /\ ~Terminal(ui.seen[k])) => ui.seen[j].a < ui.seen[k].a
            /\ Cardinality(Terminals(ui.seen)) <= 1
            /\ \A k \in Terminals(ui.seen) : k = Len(ui.seen)
            /\ ui.pc = "closed" <=> Terminals(ui.seen) # {}
            /\ ui.pc = "closed" => ~ui.timer /\ ui.queue = <<>>

\* C20: with the worker thread and the poll timer both scheduled, poll
\* eventually dequeues the terminal message and shuts down; it consumes the
\* messages in the order they were posted, handles exactly one terminal
\* message and sets no timer after it.
C20_PollShutsDown ==
    /\ <>[](ui.pc = "closed" /\ ~ui.timer)
    /\ []PollInOrder

\* poll has shown two frames and then handled done.
C20_Witness ==
    /\ ui.pc = "closed"
    /\ ui.seen = <<Msg("progress", 1, 2), Msg("progress", 2, 2),
                   Msg("done", 0, 0)>>

====
